---- MODULE Spec2Model ----
(***************************************************************************)
(* Model of gbak (src/gbak.py): a single sequential process that lists the *)
(* repositories of a GitHub user, optionally lists the branches of each,   *)
(* downloads one archive per branch into <dest>/<timestamp>/ and stops     *)
(* cooperatively on SIGINT.  The remote service, the clock, the file       *)
(* system found at start and the interrupt are the environment.            *)
(*                                                                         *)
(* Names are sequences of short strings, so that the URL and file name     *)
(* formatting is computed as the program computes it.                      *)
(***************************************************************************)
EXTENDS Integers, Sequences, FiniteSets, TLC

----------------------------------------------------------------------------
(* Program constants *)

RATE_LIMIT_WAIT_TIME_S == 10
RATE_LIMIT_WARNING_THRESHOLD == 10

(* Bounds of the model *)

MaxRepos == 2       \* longest repository listing
MaxBranches == 2    \* longest branch listing
MaxBody == 1        \* longest archive body, in bytes

----------------------------------------------------------------------------
(* Input universes *)

\* The repositories of the account (GitHub allows letters, digits, - _ . in a
\* name), and a record of the search response that lacks the 'name' field
RepoDicts ==
    { [name |-> <<"a", "_", "b">>, default_branch |-> <<"c">>],
      [name |-> <<"a">>, default_branch |-> <<"b", "_", "c">>],
      [default_branch |-> <<"c">>] }

\* Branch names (git allows _ and / in a ref name)
BranchNames == { <<"c">>, <<"b", "_", "c">>, <<"f", "/", "c">> }

\* Values of the X-RateLimit-Remaining header; <<>> is "header absent"
QuotaHeaders == { <<>>, <<9>>, <<10>> }

\* Readings of datetime.now().isoformat()
Timestamps == { <<"ts">> }

\* Archive bodies: byte strings of length 0..MaxBody
Bodies == UNION { [1..n -> {7}] : n \in 0..MaxBody }

\* Sequences of length 0..n over S
SeqsUpTo(S, n) == UNION { [1..k -> S] : k \in 0..n }

\* Repository listings: names are unique within the account
RepoListings ==
    { s \in SeqsUpTo(RepoDicts, MaxRepos) :
        \A i, j \in 1..Len(s) :
            (i # j /\ "name" \in DOMAIN s[i] /\ "name" \in DOMAIN s[j])
                => s[i].name # s[j].name }

\* Branch listings: names are unique within the repository
BranchListings ==
    { s \in SeqsUpTo({ [name |-> b] : b \in BranchNames }, MaxBranches) :
        \A i, j \in 1..Len(s) : i # j => s[i].name # s[j].name }

\* What requests.get can return for each kind of request
ErrorResponses ==
    { [ok |-> FALSE, quota |-> q, valid |-> FALSE, json |-> <<>>, content |-> <<>>] :
        q \in QuotaHeaders }

OkResponses(kind) ==
    { [ok |-> TRUE, quota |-> q, valid |-> FALSE, json |-> <<>>, content |-> <<>>] :
        q \in QuotaHeaders }
    \cup
    CASE kind = "repos" ->
           { [ok |-> TRUE, quota |-> q, valid |-> TRUE, json |-> l, content |-> <<>>] :
               q \in QuotaHeaders, l \in RepoListings }
      [] kind = "branches" ->
           { [ok |-> TRUE, quota |-> q, valid |-> TRUE, json |-> l, content |-> <<>>] :
               q \in QuotaHeaders, l \in BranchListings }
      [] OTHER ->
           { [ok |-> TRUE, quota |-> q, valid |-> FALSE, json |-> <<>>, content |-> b] :
               q \in QuotaHeaders, b \in Bodies }

Responses(kind) == ErrorResponses \cup OkResponses(kind)

\* The exceptions requests.get raises without a response
GetExceptions == { "Connection", "Timeout", "TooManyRedirects" }

----------------------------------------------------------------------------
(* Pure functions of the program *)

user == <<"u">>

dest == <<"d", "/">>

file_extension(tgz) == IF tgz THEN <<"tar.gz">> ELSE <<"zip">>

ReposUrl == <<"https://api.github.com/search/repositories?q=user:">> \o user

BranchesUrl(repo_name) ==
    <<"https://api.github.com/repos/">> \o user \o <<"/">> \o repo_name
        \o <<"/", "branches">>

ArchiveUrl(repo_name, branch, ext) ==
    <<"https://github.com/">> \o user \o <<"/">> \o repo_name
        \o <<"/", "archive", "/", "refs", "/", "heads", "/">> \o branch \o <<".">> \o ext

SessionDir(ts) == dest \o ts

FilePath(ts, repo_name, branch, ext) ==
    SessionDir(ts) \o <<"/">> \o repo_name \o <<"_">> \o branch \o <<".">> \o ext

\* The directory part of a path: everything before its last "/"
DirName(path) ==
    LET slashes == { i \in 1..Len(path) : path[i] = "/" }
    IN  IF slashes = {} THEN <<>>
        ELSE SubSeq(path, 1, (CHOOSE i \in slashes : \A j \in slashes : j <= i) - 1)

\* QuotaLow with the comparison off by one (<= for <)
QuotaLow_OffByOne(resp) ==
    /\ resp.quota # <<>>
    /\ resp.quota[1] <= RATE_LIMIT_WARNING_THRESHOLD

\* int(r.headers['X-RateLimit-Remaining']) < RATE_LIMIT_WARNING_THRESHOLD
QuotaLow(resp) ==
    /\ resp.quota # <<>>
    /\ resp.quota[1] < RATE_LIMIT_WARNING_THRESHOLD

----------------------------------------------------------------------------
(* State *)

VARIABLES
    pc,             \* position of the main program
    SIGINT,         \* the global SIGNINT flag
    all_branches,   \* --all-branches
    tar_gz,         \* --tar-gz
    dest_exists,    \* os.path.isdir(dest) at start
    existing_dirs,  \* directories found under dest at start
    session_dir,    \* TRUE once os.makedirs has created <dest>/<timestamp>
    call,           \* which request make_request is serving
    url,            \* the URL of that request
    r,              \* the response of the last requests.get
    wait_i,         \* loop variable i of the backoff wait
    repos,          \* the repository listing
    timestamp,      \* the session timestamp
    bytes_total,    \* running byte counter
    repo_idx,       \* position of the outer loop in repos
    branches,       \* branch names of the current repository
    branch_idx,     \* position of the inner loop in branches
    files,          \* regular files on disk: path -> content
    exit_code,      \* process exit status, meaningful when pc = "exit"
    requests,       \* history: the requests issued, [call, url], in order
    written,        \* history: <<repo, branch, body>> of completed downloads, in order
    observed,       \* history: where the program saw SIGINT set
    net_failure,    \* history: how a request failed, "none" if none did
    listed,         \* history: the listings of the branch-list responses, in order
    slept,          \* history: sleep(1) calls since the last response arrived
    between,        \* history: the disk when SIGINT first arrived between two
                    \*          branches of a repository, <<>> if it did not
    sig_inflight,   \* history: k if SIGINT first arrived while the k-th archive
                    \*          request was in flight, 0 if it did not
    late_requests,  \* history: archive requests issued while SIGINT was set
    late_writes,    \* history: downloads completed while SIGINT was set
    error,          \* history: the step at which a fatal error ended the run
    log_total       \* history: byte totals reported by the final log line

vars == << pc, SIGINT, all_branches, tar_gz, dest_exists, existing_dirs,
           session_dir, call, url, r, wait_i, repos, timestamp, bytes_total,
           repo_idx, branches, branch_idx, files, exit_code, requests, written,
           observed, net_failure, listed, slept, between, sig_inflight,
           late_requests, late_writes, error, log_total >>

NoResponse == [ok |-> FALSE, quota |-> <<>>, valid |-> FALSE, json |-> <<>>, content |-> <<>>]

Init ==
    /\ pc = "check_dest"
    /\ SIGINT = FALSE
    /\ all_branches \in BOOLEAN
    /\ tar_gz \in BOOLEAN
    /\ dest_exists \in BOOLEAN
    /\ existing_dirs \in SUBSET { SessionDir(t) : t \in Timestamps }
    /\ (~dest_exists => existing_dirs = {})
    /\ session_dir = FALSE
    /\ call = "none"
    /\ url = <<>>
    /\ r = NoResponse
    /\ wait_i = 0
    /\ repos = <<>>
    /\ timestamp = <<>>
    /\ bytes_total = 0
    /\ repo_idx = 0
    /\ branches = <<>>
    /\ branch_idx = 0
    /\ files = <<>>
    /\ exit_code = 0
    /\ requests = <<>>
    /\ written = <<>>
    /\ observed = {}
    /\ net_failure = "none"
    /\ listed = <<>>
    /\ slept = 0
    /\ between = <<>>
    /\ sig_inflight = 0
    /\ late_requests = 0
    /\ late_writes = 0
    /\ error = "none"
    /\ log_total = <<>>

----------------------------------------------------------------------------
(* Helpers for the frame conditions *)

config == << all_branches, tar_gz, dest_exists, existing_dirs >>

loopv == << repos, timestamp, repo_idx, branches, branch_idx >>

disk == << session_dir, files, bytes_total, written >>

reqv == << call, url, r, wait_i, requests, net_failure, listed, slept >>

late == << late_requests, late_writes >>

\* exit(code): the process ends with this status
Exit(code, step) ==
    /\ pc' = "exit"
    /\ exit_code' = code
    /\ error' = step

Continue(next) ==
    /\ pc' = next
    /\ UNCHANGED << exit_code, error >>

\* Status of exit(-1) as the parent process sees it
EXIT_MINUS_ONE == 255

\* Status of an exception that nothing catches
EXIT_UNCAUGHT == 1

----------------------------------------------------------------------------
(* The interrupt *)

\* signal_handler: SIGNINT = True
signal_handler ==
    /\ pc # "exit"
    /\ SIGINT' = TRUE
    /\ between' = IF /\ ~SIGINT
                     /\ pc = "for_branch"
                     /\ 1 < branch_idx
                     /\ branch_idx <= Len(branches)
                    THEN << [files |-> files, requests |-> requests] >>
                    ELSE between
    /\ sig_inflight' = IF ~SIGINT /\ pc = "inflight" /\ call = "archive"
                         THEN Len(SelectSeq(requests,
                                            LAMBDA q : q.call = "archive"))
                         ELSE sig_inflight
    /\ UNCHANGED << pc, exit_code, error, config, loopv, disk, reqv, observed,
                    late, log_total >>

----------------------------------------------------------------------------
(* make_request and rate_limit_check *)

\* requests.get(url, headers=headers) is issued
RequestsGet ==
    /\ pc = "get"
    /\ requests' = Append(requests, [call |-> call, url |-> url])
    /\ late_requests' = IF SIGINT /\ call = "archive"
                          THEN late_requests + 1
                          ELSE late_requests
    /\ Continue("inflight")
    /\ UNCHANGED << SIGINT, config, loopv, disk, call, url, r, wait_i,
                    net_failure, listed, slept, between, sig_inflight,
                    late_writes, observed, log_total >>

\* GetRaises that tries the request again instead of exiting
GetRaises_Retry ==
    /\ pc = "inflight"
    /\ \E e \in GetExceptions : net_failure' = e
    /\ Continue("get")
    /\ UNCHANGED << SIGINT, config, loopv, disk, call, url, r, wait_i, requests,
                    listed, slept, between, sig_inflight, late, observed,
                    log_total >>

\* requests.get raises ConnectionError, Timeout or TooManyRedirects: exit(-1)
GetRaises ==
    /\ pc = "inflight"
    /\ \E e \in GetExceptions : net_failure' = e
    /\ Exit(EXIT_MINUS_ONE, call)
    /\ UNCHANGED << SIGINT, config, loopv, disk, call, url, r, wait_i, requests,
                    listed, slept, between, sig_inflight, late, observed,
                    log_total >>

\* requests.get returns a response
GetReturns ==
    /\ pc = "inflight"
    /\ \E resp \in Responses(call) :
        /\ r' = resp
        /\ net_failure' = IF resp.ok THEN "none" ELSE "HTTPStatus"
        /\ listed' = IF call = "branches" THEN Append(listed, resp.json) ELSE listed
    /\ slept' = 0
    /\ Continue("rate_limit_check")
    /\ UNCHANGED << SIGINT, config, loopv, disk, call, url, wait_i, requests,
                    between, sig_inflight, late, observed, log_total >>

\* RateLimitCheck that gives up as soon as the flag is set, whatever the quota
RateLimitCheck_PollFirst ==
    /\ pc = "rate_limit_check"
    /\ IF SIGINT
         THEN /\ wait_i' = wait_i
              /\ Exit(0, "none")
         ELSE IF QuotaLow(r)
                THEN /\ wait_i' = 0
                     /\ Continue("wait")
                ELSE /\ wait_i' = wait_i
                     /\ Continue("raise_for_status")
    /\ UNCHANGED << SIGINT, config, loopv, disk, call, url, r, requests,
                    net_failure, listed, slept, between, sig_inflight, late,
                    observed, log_total >>

\* rate_limit_check: the test of the quota header
RateLimitCheck ==
    /\ pc = "rate_limit_check"
    /\ IF QuotaLow(r)
         THEN /\ wait_i' = 0
              /\ Continue("wait")
         ELSE /\ wait_i' = wait_i
              /\ Continue("raise_for_status")
    /\ UNCHANGED << SIGINT, config, loopv, disk, call, url, r, requests,
                    net_failure, listed, slept, between, sig_inflight, late,
                    observed, log_total >>

\* WaitTick that sleeps without looking at the flag
WaitTick_NoPoll ==
    /\ pc = "wait"
    /\ wait_i < RATE_LIMIT_WAIT_TIME_S
    /\ observed' = observed
    /\ slept' = slept + 1
    /\ wait_i' = wait_i + 1
    /\ Continue("wait")
    /\ UNCHANGED << SIGINT, config, loopv, disk, call, url, r, requests,
                    net_failure, listed, between, sig_inflight, late, log_total
                    >>

\* One iteration of the backoff loop: exit(0) if SIGNINT, else sleep(1)
WaitTick ==
    /\ pc = "wait"
    /\ wait_i < RATE_LIMIT_WAIT_TIME_S
    /\ IF SIGINT
         THEN /\ observed' = observed \cup { "wait" }
              /\ Exit(0, "none")
              /\ UNCHANGED << wait_i, slept >>
         ELSE /\ observed' = observed
              /\ slept' = slept + 1
              /\ wait_i' = wait_i + 1
              /\ Continue("wait")
    /\ UNCHANGED << SIGINT, config, loopv, disk, call, url, r, requests,
                    net_failure, listed, between, sig_inflight, late, log_total
                    >>

\* WaitDone that starts the backoff loop again
WaitDone_Restart ==
    /\ pc = "wait"
    /\ wait_i >= RATE_LIMIT_WAIT_TIME_S
    /\ wait_i' = 0
    /\ slept' = 0
    /\ Continue("wait")
    /\ UNCHANGED << SIGINT, config, loopv, disk, call, url, r, requests,
                    net_failure, listed, between, sig_inflight, late, observed,
                    log_total >>

\* The backoff loop has run all its iterations
WaitDone ==
    /\ pc = "wait"
    /\ wait_i >= RATE_LIMIT_WAIT_TIME_S
    /\ Continue("raise_for_status")
    /\ UNCHANGED << SIGINT, config, loopv, disk, reqv, between, sig_inflight,
                    late, observed, log_total >>

\* RaiseForStatus that exits with status 0 on a failing status
RaiseForStatus_ExitZero ==
    /\ pc = "raise_for_status"
    /\ IF ~r.ok
         THEN Exit(0, call)
         ELSE Continue(CASE call = "repos" -> "parse_repos"
                         [] call = "branches" -> "parse_branches"
                         [] OTHER -> "open")
    /\ UNCHANGED << SIGINT, config, loopv, disk, reqv, between, sig_inflight,
                    late, observed, log_total >>

\* r.raise_for_status(): exit(-1) on a failing status, else return r to the caller
RaiseForStatus ==
    /\ pc = "raise_for_status"
    /\ IF ~r.ok
         THEN Exit(EXIT_MINUS_ONE, call)
         ELSE Continue(CASE call = "repos" -> "parse_repos"
                         [] call = "branches" -> "parse_branches"
                         [] OTHER -> "open")
    /\ UNCHANGED << SIGINT, config, loopv, disk, reqv, between, sig_inflight,
                    late, observed, log_total >>

----------------------------------------------------------------------------
(* The main program *)

\* The repository and branch the loops are at
repo == repos[repo_idx]

repo_name == repo.name

branch == branches[branch_idx]

\* CheckDest without the test of the destination directory
CheckDest_NoTest ==
    /\ pc = "check_dest"
    /\ call' = "repos"
    /\ url' = ReposUrl
    /\ Continue("get")
    /\ UNCHANGED << SIGINT, config, loopv, disk, r, wait_i, requests,
                    net_failure, listed, slept, between, sig_inflight, late,
                    observed, log_total >>

\* os.path.isdir(args.dest); then the repository-list request is prepared
CheckDest ==
    /\ pc = "check_dest"
    /\ IF ~dest_exists
         THEN /\ Exit(EXIT_MINUS_ONE, "check_dest")
              /\ UNCHANGED << call, url >>
         ELSE /\ call' = "repos"
              /\ url' = ReposUrl
              /\ Continue("get")
    /\ UNCHANGED << SIGINT, config, loopv, disk, r, wait_i, requests,
                    net_failure, listed, slept, between, sig_inflight, late,
                    observed, log_total >>

\* repos = make_request(...).json()['items']; timestamp = now; bytes_total = 0
ParseRepos ==
    /\ pc = "parse_repos"
    /\ IF ~r.valid
         THEN /\ Exit(EXIT_UNCAUGHT, "parse_repos")
              /\ UNCHANGED << repos, timestamp >>
         ELSE /\ repos' = r.json
              /\ timestamp' \in Timestamps
              /\ Continue("check_first")
    /\ bytes_total' = 0
    /\ UNCHANGED << SIGINT, config, repo_idx, branches, branch_idx, session_dir,
                    files, written, reqv, between, sig_inflight, late, observed,
                    log_total >>

\* CheckFirst that lets an empty listing pass
CheckFirst_EmptyPasses ==
    /\ pc = "check_first"
    /\ IF repos # <<>> /\ "name" \notin DOMAIN repos[1]
         THEN Exit(EXIT_MINUS_ONE, "check_first")
         ELSE Continue("makedirs")
    /\ UNCHANGED << SIGINT, config, loopv, disk, reqv, between, sig_inflight,
                    late, observed, log_total >>

\* _ = repos[0]['name']: KeyError is caught and exits -1, IndexError is not caught
CheckFirst ==
    /\ pc = "check_first"
    /\ IF repos = <<>>
         THEN Exit(EXIT_UNCAUGHT, "check_first")
         ELSE IF "name" \notin DOMAIN repos[1]
                THEN Exit(EXIT_MINUS_ONE, "check_first")
                ELSE Continue("makedirs")
    /\ UNCHANGED << SIGINT, config, loopv, disk, reqv, between, sig_inflight,
                    late, observed, log_total >>

\* MakeDirs that accepts a directory that already exists (exist_ok=True)
MakeDirs_ExistOk ==
    /\ pc = "makedirs"
    /\ session_dir' = TRUE
    /\ repo_idx' = 1
    /\ Continue("for_repo")
    /\ UNCHANGED << SIGINT, config, repos, timestamp, branches, branch_idx,
                    files, bytes_total, written, reqv, between, sig_inflight,
                    late, observed, log_total >>

\* os.makedirs(dest + timestamp, exist_ok=False)
MakeDirs ==
    /\ pc = "makedirs"
    /\ IF SessionDir(timestamp) \in existing_dirs
         THEN /\ Exit(EXIT_MINUS_ONE, "makedirs")
              /\ UNCHANGED << session_dir, repo_idx >>
         ELSE /\ session_dir' = TRUE
              /\ repo_idx' = 1
              /\ Continue("for_repo")
    /\ UNCHANGED << SIGINT, config, repos, timestamp, branches, branch_idx,
                    files, bytes_total, written, reqv, between, sig_inflight,
                    late, observed, log_total >>

\* for repo in repos: the head of the outer loop, up to the branch-list request
ForRepo ==
    /\ pc = "for_repo"
    /\ IF repo_idx > Len(repos)
         THEN /\ Continue("finalize")
              /\ UNCHANGED << branches, branch_idx, call, url >>
         ELSE IF {"name", "default_branch"} \ DOMAIN repo # {}
                THEN /\ Exit(EXIT_UNCAUGHT, "for_repo")
                     /\ UNCHANGED << branches, branch_idx, call, url >>
                ELSE /\ branches' = << repo.default_branch >>
                     /\ IF all_branches
                          THEN /\ call' = "branches"
                               /\ url' = BranchesUrl(repo_name)
                               /\ Continue("get")
                               /\ UNCHANGED branch_idx
                          ELSE /\ branch_idx' = 1
                               /\ Continue("for_branch")
                               /\ UNCHANGED << call, url >>
    /\ UNCHANGED << SIGINT, config, repos, timestamp, repo_idx, disk, r, wait_i,
                    requests, net_failure, listed, slept, between, sig_inflight,
                    late, observed, log_total >>

\* ParseBranches that keeps the default branch in front of the listed ones
ParseBranches_KeepDefault ==
    /\ pc = "parse_branches"
    /\ IF ~r.valid
         THEN /\ Exit(EXIT_UNCAUGHT, "parse_branches")
              /\ UNCHANGED << branches, branch_idx >>
         ELSE /\ branches' = branches \o [i \in 1..Len(r.json) |-> r.json[i].name]
              /\ branch_idx' = 1
              /\ Continue("for_branch")
    /\ UNCHANGED << SIGINT, config, repos, timestamp, repo_idx, disk, reqv,
                    between, sig_inflight, late, observed, log_total >>

\* branches = [branch['name'] for branch in make_request(...).json()]
ParseBranches ==
    /\ pc = "parse_branches"
    /\ IF ~r.valid
         THEN /\ Exit(EXIT_UNCAUGHT, "parse_branches")
              /\ UNCHANGED << branches, branch_idx >>
         ELSE /\ branches' = [i \in 1..Len(r.json) |-> r.json[i].name]
              /\ branch_idx' = 1
              /\ Continue("for_branch")
    /\ UNCHANGED << SIGINT, config, repos, timestamp, repo_idx, disk, reqv,
                    between, sig_inflight, late, observed, log_total >>

\* ForBranch that clears the flag when it has seen it
ForBranch_ClearsFlag ==
    /\ pc = "for_branch"
    /\ IF branch_idx > Len(branches)
         THEN /\ repo_idx' = repo_idx + 1
              /\ Continue("for_repo")
              /\ UNCHANGED << call, url, observed, SIGINT >>
         ELSE IF SIGINT
                THEN /\ observed' = observed \cup { "top" }
                     /\ SIGINT' = FALSE
                     /\ repo_idx' = repo_idx + 1
                     /\ Continue("for_repo")
                     /\ UNCHANGED << call, url >>
                ELSE /\ call' = "archive"
                     /\ url' = ArchiveUrl(repo_name, branch, file_extension(tar_gz))
                     /\ Continue("get")
                     /\ UNCHANGED << repo_idx, observed, SIGINT >>
    /\ UNCHANGED << config, repos, timestamp, branches, branch_idx, disk, r,
                    wait_i, requests, net_failure, listed, slept, between,
                    sig_inflight, late, log_total >>

\* ForBranch that never looks at the flag
ForBranch_NoCheck ==
    /\ pc = "for_branch"
    /\ IF branch_idx > Len(branches)
         THEN /\ repo_idx' = repo_idx + 1
              /\ Continue("for_repo")
              /\ UNCHANGED << call, url >>
         ELSE /\ call' = "archive"
              /\ url' = ArchiveUrl(repo_name, branch, file_extension(tar_gz))
              /\ Continue("get")
              /\ UNCHANGED repo_idx
    /\ UNCHANGED << SIGINT, config, repos, timestamp, branches, branch_idx,
                    disk, r, wait_i, requests, net_failure, listed, slept,
                    between, sig_inflight, late, observed, log_total >>

\* for branch in branches: if SIGNINT: break; else the archive request is prepared
ForBranch ==
    /\ pc = "for_branch"
    /\ IF branch_idx > Len(branches)
         THEN /\ repo_idx' = repo_idx + 1
              /\ Continue("for_repo")
              /\ UNCHANGED << call, url, observed >>
         ELSE IF SIGINT
                THEN /\ observed' = observed \cup { "top" }
                     /\ repo_idx' = repo_idx + 1
                     /\ Continue("for_repo")
                     /\ UNCHANGED << call, url >>
                ELSE /\ call' = "archive"
                     /\ url' = ArchiveUrl(repo_name, branch, file_extension(tar_gz))
                     /\ Continue("get")
                     /\ UNCHANGED << repo_idx, observed >>
    /\ UNCHANGED << SIGINT, config, repos, timestamp, branches, branch_idx,
                    disk, r, wait_i, requests, net_failure, listed, slept,
                    between, sig_inflight, late, log_total >>

\* The path of the file of the current branch
CurrentPath == FilePath(timestamp, repo_name, branch, file_extension(tar_gz))

\* open(path, 'wb'): creates or truncates the file; fails if its directory is missing
OpenFile ==
    /\ pc = "open"
    /\ IF DirName(CurrentPath) # SessionDir(timestamp)
         THEN /\ Exit(EXIT_UNCAUGHT, "open")
              /\ UNCHANGED files
         ELSE /\ files' = (CurrentPath :> <<>>) @@ files
              /\ Continue("write")
    /\ UNCHANGED << SIGINT, config, loopv, session_dir, bytes_total, written,
                    reqv, between, sig_inflight, late, observed, log_total >>

\* WriteFile that drops the last byte of the body
WriteFile_Truncated ==
    /\ pc = "write"
    /\ LET data == SubSeq(r.content, 1, Len(r.content) - 1)
       IN  /\ files' = (CurrentPath :> data) @@ files
           /\ bytes_total' = bytes_total + Len(data)
           /\ written' = Append(written, << repo_name, branch, data >>)
    /\ branch_idx' = branch_idx + 1
    /\ late_writes' = IF SIGINT THEN late_writes + 1 ELSE late_writes
    /\ Continue("for_branch")
    /\ UNCHANGED << SIGINT, config, repos, timestamp, repo_idx, branches,
                    session_dir, reqv, between, sig_inflight, late_requests,
                    observed, log_total >>

\* WriteFile after which the loop skips the next branch
WriteFile_SkipNext ==
    /\ pc = "write"
    /\ files' = (CurrentPath :> r.content) @@ files
    /\ bytes_total' = bytes_total + Len(r.content)
    /\ written' = Append(written, << repo_name, branch, r.content >>)
    /\ branch_idx' = branch_idx + 2
    /\ late_writes' = IF SIGINT THEN late_writes + 1 ELSE late_writes
    /\ Continue("for_branch")
    /\ UNCHANGED << SIGINT, config, repos, timestamp, repo_idx, branches,
                    session_dir, reqv, between, sig_inflight, late_requests,
                    observed, log_total >>

\* bytes_written = f.write(r.content); bytes_total += bytes_written
WriteFile ==
    /\ pc = "write"
    /\ files' = (CurrentPath :> r.content) @@ files
    /\ bytes_total' = bytes_total + Len(r.content)
    /\ written' = Append(written, << repo_name, branch, r.content >>)
    /\ branch_idx' = branch_idx + 1
    /\ late_writes' = IF SIGINT THEN late_writes + 1 ELSE late_writes
    /\ Continue("for_branch")
    /\ UNCHANGED << SIGINT, config, repos, timestamp, repo_idx, branches,
                    session_dir, reqv, between, sig_inflight, late_requests,
                    observed, log_total >>

\* The final log line with bytes_total; the program ends with status 0
Finalize ==
    /\ pc = "finalize"
    /\ log_total' = Append(log_total, bytes_total)
    /\ Exit(0, "none")
    /\ UNCHANGED << SIGINT, config, loopv, disk, reqv, between, sig_inflight,
                    late, observed >>

----------------------------------------------------------------------------

Next ==
    \/ signal_handler
    \/ RequestsGet
    \/ GetRaises
    \/ GetReturns
    \/ RateLimitCheck
    \/ WaitTick
    \/ WaitDone
    \/ RaiseForStatus
    \/ CheckDest
    \/ ParseRepos
    \/ CheckFirst
    \/ MakeDirs
    \/ ForRepo
    \/ ParseBranches
    \/ ForBranch
    \/ OpenFile
    \/ WriteFile
    \/ Finalize

Spec == Init /\ [][Next]_vars

\* The steps of the process itself: every step but the delivery of a signal
ProgramStep ==
    \/ RequestsGet
    \/ GetRaises
    \/ GetReturns
    \/ RateLimitCheck
    \/ WaitTick
    \/ WaitDone
    \/ RaiseForStatus
    \/ CheckDest
    \/ ParseRepos
    \/ CheckFirst
    \/ MakeDirs
    \/ ForRepo
    \/ ParseBranches
    \/ ForBranch
    \/ OpenFile
    \/ WriteFile
    \/ Finalize

\* The interpreter keeps running the process and every request issued
\* returns or raises; a signal may or may not be delivered
FairSpec == Spec /\ WF_vars(ProgramStep)

----------------------------------------------------------------------------
(* Vocabulary of the properties *)

Exited == pc = "exit"

IsArchive(q) == q.call = "archive"

ArchiveRequests(reqs) == SelectSeq(reqs, IsArchive)

\* The response in r carries a remaining-quota value strictly below 10
QuotaBelowThreshold ==
    /\ r.quota # <<>>
    /\ r.quota[1] < 10

\* The steps of Init and Enumerate at which a run can fail
EnumerateSteps ==
    { "check_dest", "makedirs", "repos", "parse_repos", "check_first",
      "branches", "parse_branches" }

BranchListSteps == { "branches", "parse_branches" }

\* Where control can be once a request has failed: still inside make_request,
\* or the process has ended
AfterFailure == { "rate_limit_check", "wait", "raise_for_status", "exit" }

NoUrlTwice ==
    \A i, j \in 1..Len(requests) : i # j => requests[i].url # requests[j].url

\* The <<repository, branch>> pairs of the listing, in listing order
RepoTasks(i) ==
    IF all_branches
      THEN [k \in 1..Len(listed[i]) |-> << repos[i].name, listed[i][k].name >>]
      ELSE << << repos[i].name, repos[i].default_branch >> >>

RECURSIVE TasksUpTo(_)
TasksUpTo(n) == IF n = 0 THEN <<>> ELSE TasksUpTo(n - 1) \o RepoTasks(n)

ExpectedTasks == TasksUpTo(Len(repos))

WrittenTasks == [i \in 1..Len(written) |-> << written[i][1], written[i][2] >>]

PathOf(task) == FilePath(timestamp, task[1], task[2], file_extension(tar_gz))

UrlOf(task) == ArchiveUrl(task[1], task[2], file_extension(tar_gz))

----------------------------------------------------------------------------
(* Properties *)

\* C1: once the program has seen the cancellation flag set at the top of a
\* branch iteration, it issues no further request of any kind.
C1_CancelStopsWholeLoop ==
    [][ "top" \in observed => requests' = requests ]_vars

\* C2: if the interrupt arrives after one branch of a repository has been
\* written and before the iteration of its next branch starts, the files on
\* disk stay as they are, no further archive is requested, and the run ends
\* with status 0 having reported the byte total.
C2_CancelBetweenBranches ==
    between # <<>> =>
        /\ files = between[1].files
        /\ ArchiveRequests(requests) = ArchiveRequests(between[1].requests)
        /\ Exited => (exit_code = 0 /\ log_total = << bytes_total >>)

\* C3: every run that ends without a fatal error has reported the total of
\* the bytes written.
C3_ReportsTotal ==
    (Exited /\ error = "none") => log_total = << bytes_total >>

\* C4: the exit status is 0 when the run completed or was cancelled and
\* nonzero after a fatal error; a run that has seen the cancellation flag
\* set never ends with a nonzero status.
C4_ExitStatus ==
    Exited =>
        /\ error = "none" => exit_code = 0
        /\ error # "none" => exit_code # 0
        /\ observed # {} => exit_code = 0

\* C5: when the destination directory does not exist the run ends at its
\* first step with a nonzero status, with no request issued, no session
\* directory created and no file written.
C5_MissingDest ==
    ~dest_exists =>
        /\ requests = <<>>
        /\ ~session_dir
        /\ DOMAIN files = {}
        /\ pc # "check_dest" => (Exited /\ exit_code # 0)

C5_Witness == ~dest_exists /\ Exited /\ error = "check_dest"

\* C6 as stated: a run that fails in Init or Enumerate (the branch-list
\* request of any repository included) ends with a nonzero status and no
\* archive file written.
C6_NoFileBeforeEnumerateFails ==
    (Exited /\ error \in EnumerateSteps) =>
        /\ exit_code # 0
        /\ DOMAIN files = {}

\* C6 amended: a run that fails in destination validation, session directory
\* creation, the repository-list request or a branch-list request ends with a
\* nonzero status; no archive file has been written unless the failing
\* request is the branch-list request of a second or later repository, and
\* then the files written are those of the repositories before it.
C6_EnumerateFailure ==
    (Exited /\ error \in EnumerateSteps) =>
        /\ exit_code # 0
        /\ (error \notin BranchListSteps \/ repo_idx = 1) => DOMAIN files = {}
        /\ \A i \in 1..Len(written) :
             \E j \in 1..(repo_idx - 1) : repos[j].name = written[i][1]

C6_Witness ==
    /\ Exited
    /\ error = "branches"
    /\ repo_idx = 2
    /\ DOMAIN files # {}

\* C7 as stated: no URL is requested twice, nothing is requested or written
\* after a request has failed, and the run then ends with a nonzero status.
C7_FailFastNonzero ==
    /\ NoUrlTwice
    /\ net_failure # "none" => pc \in AfterFailure
    /\ (net_failure # "none" /\ Exited) => exit_code # 0

\* C7 amended: no URL is requested twice, nothing is requested or written
\* after a request has failed, and the run then ends with a nonzero status,
\* unless the failing response carried a remaining quota below 10 and the
\* cancellation flag was seen during its backoff wait: then it ends with 0.
C7_FailFast ==
    /\ NoUrlTwice
    /\ net_failure # "none" => pc \in AfterFailure
    /\ (net_failure # "none" /\ Exited) =>
         \/ exit_code # 0
         \/ /\ net_failure = "HTTPStatus"
            /\ QuotaBelowThreshold
            /\ "wait" \in observed

C7_Witness ==
    /\ Exited
    /\ net_failure = "HTTPStatus"
    /\ exit_code # 0
    /\ call = "archive"
    /\ written # <<>>

\* C8: in a run that ended without error and without having seen the
\* cancellation flag, the archives requested and written are exactly, and in
\* order, one per repository for its default branch (all-branches off) or
\* one per branch of each repository's branch listing (all-branches on).
C8_OneArchivePerBranch ==
    (Exited /\ error = "none" /\ observed = {}) =>
        /\ WrittenTasks = ExpectedTasks
        /\ LET reqs == ArchiveRequests(requests)
           IN  /\ Len(reqs) = Len(ExpectedTasks)
               /\ \A i \in 1..Len(reqs) : reqs[i].url = UrlOf(ExpectedTasks[i])

C8_Witness ==
    /\ Exited /\ error = "none" /\ observed = {}
    /\ all_branches
    /\ Len(repos) = 2
    /\ Len(listed[1]) = 2
    /\ Len(written) >= 3

\* C9: two distinct (repository, branch) pairs written in a session have
\* distinct file paths.
C9_CollisionFree ==
    \A i, j \in 1..Len(written) :
        WrittenTasks[i] # WrittenTasks[j]
            => PathOf(WrittenTasks[i]) # PathOf(WrittenTasks[j])

\* C10: a response whose remaining quota is below 10 is followed by 10 ticks
\* of waiting before control leaves make_request's wait (so before any next
\* request or file write), unless the run ends first; a response without the
\* header or with a quota of 10 or more is followed by no tick.
C10_BackoffWait ==
    /\ pc = "wait" => (QuotaBelowThreshold /\ slept = wait_i /\ slept <= 10)
    /\ pc \notin { "rate_limit_check", "wait", "exit" } =>
         slept = (IF QuotaBelowThreshold THEN 10 ELSE 0)
    /\ Exited => slept <= 10

C10_Witness ==
    /\ pc = "write"
    /\ QuotaBelowThreshold
    /\ slept = 10

\* C11: each tick of the backoff wait reads the cancellation flag once; a
\* tick that finds it set ends the run at once with status 0: the remaining
\* ticks are not slept and no request follows.
C11_CancelDuringWait ==
    [][ (pc = "wait" /\ wait_i < RATE_LIMIT_WAIT_TIME_S /\ SIGINT) =>
            /\ pc' = "exit"
            /\ exit_code' = 0
            /\ "wait" \in observed'
            /\ slept' = slept
            /\ requests' = requests ]_vars

C11_Witness ==
    /\ Exited
    /\ "wait" \in observed
    /\ exit_code = 0
    /\ slept \in 1..9

\* The sum of the sizes of the files under the given paths
RECURSIVE SumSizes(_, _)
SumSizes(f, paths) ==
    IF paths = {} THEN 0
    ELSE LET p == CHOOSE x \in paths : TRUE
         IN  Len(f[p]) + SumSizes(f, paths \ { p })

\* C12: bytes_total starts at 0 and grows only by the size of each completed
\* download, so that in every state it equals the sum of the sizes of the
\* archive files written so far in the session.
C12_TotalIsSumOfFiles ==
    bytes_total = SumSizes(files, DOMAIN files)

\* The repository-list response has arrived and is not a non-empty list
\* whose first element has a 'name' field
BadListingReceived ==
    /\ call = "repos"
    /\ r.ok
    /\ \/ ~r.valid
       \/ r.json = <<>>
       \/ "name" \notin DOMAIN r.json[1]

\* Where control can be after such a response
BeforeMakeDirs ==
    { "rate_limit_check", "wait", "raise_for_status", "parse_repos",
      "check_first", "exit" }

\* C13 as stated: after a repository-list response that is not a non-empty
\* list whose first element has a 'name' field, no session directory is
\* created, no further request is issued, no file is written and the run
\* ends with a nonzero status.
C13_InvalidListingNonzero ==
    BadListingReceived =>
        /\ pc \in BeforeMakeDirs
        /\ ~session_dir
        /\ Len(requests) = 1
        /\ DOMAIN files = {}
        /\ Exited => exit_code # 0

\* C13 amended: as stated, except that when the response carried a remaining
\* quota below 10 and the cancellation flag is seen during its backoff wait,
\* the run ends with status 0 before the listing is looked at.
C13_InvalidListing ==
    BadListingReceived =>
        /\ pc \in BeforeMakeDirs
        /\ ~session_dir
        /\ Len(requests) = 1
        /\ DOMAIN files = {}
        /\ Exited =>
             \/ exit_code # 0 /\ error \in { "parse_repos", "check_first" }
             \/ exit_code = 0 /\ "wait" \in observed /\ QuotaBelowThreshold

C13_Witness ==
    /\ BadListingReceived
    /\ r.valid
    /\ r.json = <<>>
    /\ Exited
    /\ error = "check_first"
    /\ exit_code # 0

\* C14: the step that completes a download leaves at the destination path
\* of the branch exactly the body of the response to that branch's archive
\* request, and adds the length of that body to bytes_total.
C14_RoundTrip ==
    [][ (pc = "write" /\ pc' # "write") =>
            /\ requests[Len(requests)].url = UrlOf(<< repo_name, branch >>)
            /\ CurrentPath \in DOMAIN files'
            /\ files'[CurrentPath] = r.content
            /\ Len(files'[CurrentPath]) = Len(r.content)
            /\ bytes_total' - bytes_total = Len(r.content) ]_vars

C14_Witness ==
    /\ pc = "for_branch"
    /\ call = "archive"
    /\ branch_idx > 1
    /\ r.content # <<>>
    /\ files[PathOf(<< repo_name, branches[branch_idx - 1] >>)] = r.content
    /\ bytes_total >= Len(r.content)

\* The session directory of this run was already there at start
Collision ==
    /\ timestamp # <<>>
    /\ SessionDir(timestamp) \in existing_dirs

\* C15 as stated: the timestamp is captured and the session directory
\* created before the repository-list request is issued, and a run that ends
\* on a session directory collision has issued no request.
C15_InitBeforeEnumerate ==
    /\ requests # <<>> => (timestamp # <<>> /\ session_dir)
    /\ (Exited /\ error = "makedirs") => requests = <<>>

\* C15 amended: the repository-list request is issued before the timestamp
\* is captured and the session directory created; a session directory
\* collision ends the run with a nonzero status after exactly that one
\* request, with no directory created and no file written.
C15_EnumerateBeforeMakeDirs ==
    /\ (timestamp # <<>> \/ session_dir) =>
         (requests # <<>> /\ requests[1].call = "repos")
    /\ Collision =>
         /\ pc \in { "check_first", "makedirs", "exit" }
         /\ ~session_dir
         /\ Len(requests) = 1
         /\ DOMAIN files = {}
         /\ Exited => (exit_code # 0 /\ error \in { "check_first", "makedirs" })

C15_Witness ==
    /\ Collision
    /\ Exited
    /\ error = "makedirs"
    /\ exit_code # 0
    /\ Len(requests) = 1

\* The <<repository, branch>> pairs known so far, repositories in
\* repository-list order and branches in branch-list order
KnownRepoTasks(i) ==
    IF { "name", "default_branch" } \ DOMAIN repos[i] # {}
      THEN <<>>
      ELSE IF ~all_branches
             THEN << << repos[i].name, repos[i].default_branch >> >>
             ELSE IF i > Len(listed)
                    THEN <<>>
                    ELSE [k \in 1..Len(listed[i]) |->
                            << repos[i].name, listed[i][k].name >>]

RECURSIVE KnownTasksUpTo(_)
KnownTasksUpTo(n) ==
    IF n = 0 THEN <<>> ELSE KnownTasksUpTo(n - 1) \o KnownRepoTasks(n)

ListingOrder == KnownTasksUpTo(Len(repos))

IsPrefix(a, b) ==
    /\ Len(a) <= Len(b)
    /\ \A i \in 1..Len(a) : a[i] = b[i]

\* Where control is while an archive request or its file write is in progress
ArchiveInProgress ==
    { "inflight", "rate_limit_check", "wait", "raise_for_status", "open", "write" }

\* C16: the downloads completed so far are a prefix of the listing order,
\* each was requested in that order, and at most one archive request is
\* outstanding: the next is issued only when the previous one is written.
C16_OneAtATimeInOrder ==
    /\ IsPrefix(WrittenTasks, ListingOrder)
    /\ LET reqs == ArchiveRequests(requests)
       IN  /\ Len(reqs) - Len(written) \in { 0, 1 }
           /\ \A i \in 1..Len(written) : reqs[i].url = UrlOf(WrittenTasks[i])
           /\ Len(reqs) = Len(written) + 1 =>
                (call = "archive" /\ pc \in ArchiveInProgress \cup { "exit" })
           /\ (call = "archive" /\ pc \in ArchiveInProgress) =>
                (Len(reqs) = Len(written) + 1
                    /\ reqs[Len(reqs)].url = UrlOf(<< repo_name, branch >>))

C16_Witness ==
    /\ all_branches
    /\ pc = "inflight"
    /\ call = "archive"
    /\ Len(written) = 3
    /\ written[1][1] # written[3][1]

\* The variables of the program proper: everything but the flag and the
\* record of where the interrupt arrived
program == << pc, exit_code, error, config, loopv, disk, reqv, observed, log_total >>

\* C17: the flag is false at start; a step that sets it changes nothing of
\* the program (it is the handler's); once set it stays set; with the flag
\* set a further interrupt changes nothing at all (every step that changes
\* the state is then a step of the program); and while the process runs the
\* handler can always run.
C17_FlagSetOnce ==
    /\ ~SIGINT
    /\ [][ /\ SIGINT => SIGINT'
           /\ SIGINT' # SIGINT => UNCHANGED program
           /\ SIGINT => pc' # pc ]_vars
    /\ [](~Exited => ENABLED signal_handler)

C17_Witness ==
    /\ SIGINT
    /\ "top" \in observed
    /\ pc = "for_repo"
    /\ repo_idx <= Len(repos)

----------------------------------------------------------------------------

\* The bytes of the first n downloads that were written
RECURSIVE WrittenBytes(_)
WrittenBytes(n) ==
    IF n = 0 THEN 0 ELSE WrittenBytes(n - 1) + Len(written[n][3])

\* The run has ended, the interrupt first arrived while an archive request was
\* in flight, and that request returned a successful response
EndedAfterCancelInFlight ==
    /\ Exited
    /\ sig_inflight > 0
    /\ call = "archive"
    /\ Len(ArchiveRequests(requests)) = sig_inflight
    /\ net_failure = "none"
    /\ r.ok

\* The response in r is the last download written: its file holds the whole
\* body and bytes_total counts it
LastResponsePersisted ==
    /\ Len(written) = sig_inflight
    /\ LET w == written[Len(written)]
       IN  /\ UrlOf(<< w[1], w[2] >>) = url
           /\ w[3] = r.content
           /\ PathOf(<< w[1], w[2] >>) \in DOMAIN files
           /\ files[PathOf(<< w[1], w[2] >>)] = r.content
    /\ bytes_total = WrittenBytes(Len(written))

\* C18 as stated: when the interrupt arrives while an archive request is in
\* flight and the request succeeds, the body is written in full to its file
\* and added to bytes_total before the run ends, whatever the quota of the
\* response.
C18_SuccessAlwaysPersisted ==
    EndedAfterCancelInFlight => LastResponsePersisted

\* C18: when the interrupt arrives while an archive request is in flight and
\* the request succeeds, the body is written in full to its file and added
\* to bytes_total before the run ends, unless the response carries a quota
\* below 10, in which case the backoff wait sees the flag and the run ends
\* with status 0 without the file, or the file cannot be opened, in which
\* case the run ends with status 1 without the file.
C18_SuccessPersisted ==
    EndedAfterCancelInFlight =>
        \/ LastResponsePersisted
        \/ /\ QuotaBelowThreshold
           /\ "wait" \in observed
           /\ exit_code = 0
           /\ Len(written) = sig_inflight - 1
        \/ /\ error = "open"
           /\ exit_code = EXIT_UNCAUGHT
           /\ Len(written) = sig_inflight - 1

C18_Witness ==
    /\ EndedAfterCancelInFlight
    /\ LastResponsePersisted
    /\ Len(r.content) > 0
    /\ late_writes = 1

----------------------------------------------------------------------------

\* C19: after the cancellation flag has become true, at most one more archive
\* request is issued and at most one more archive file is written before the
\* run ends.
C19_BoundedResponse ==
    /\ late_requests <= 1
    /\ late_writes <= 1
    /\ late_requests <= late_writes + 1

C19_Witness ==
    /\ Exited
    /\ late_requests = 1
    /\ late_writes = 1
    /\ "top" \in observed

----------------------------------------------------------------------------

\* C20: every run reaches a terminal state, having issued no request twice
\* and slept at most 10 backoff ticks for any one request, whether or not an
\* interrupt is delivered.
C20_Terminates ==
    /\ <>Exited
    /\ [](NoUrlTwice /\ slept <= RATE_LIMIT_WAIT_TIME_S)

\* A run that ended after a full backoff wait and more than one request
C20_Witness ==
    /\ Exited
    /\ slept = RATE_LIMIT_WAIT_TIME_S
    /\ Len(requests) > 1
    /\ exit_code \in { 0, EXIT_UNCAUGHT, EXIT_MINUS_ONE }

====
